---- MODULE Spec2Model ----
(***************************************************************************)
(* Model of pkg/js/libs/rdp/rdp.go: the two RDP probes IsRDP and           *)
(* CheckRDPAuth, the probe functions isRDP and checkRDPAuth they call      *)
(* through the memoized wrappers, the dialer registry they consult and     *)
(* the streams they open and close.                                        *)
(*                                                                         *)
(* The memoized wrappers (memoizedisRDP, memoizedcheckRDPAuth) are         *)
(* generated code that is not part of rdp.go; they are modelled from the   *)
(* specification's section 4.3 (claim-and-publish per ProbeKey).           *)
(***************************************************************************)
EXTENDS Integers, Sequences, FiniteSets, Bags, TLC

VARIABLES
    registered,   \* protocolstate: the execution ids that have dialers
    cache,        \* memo cache: ProbeKey -> Absent | InFlight | outcome
    frames,       \* the calls in flight: a bag of frames (position, key, locals)
    streams,      \* every stream a dial has produced, in dial order
    stats,        \* per ProbeKey: what was done for it, and how it returned
    returned,     \* per ProbeKey: the outcomes its callers have received
    ncalls,       \* number of calls issued so far
    nprobes,      \* number of probe executions started so far
    crashed       \* an unrecovered panic has aborted the process

vars == <<registered, cache, frames, streams, stats, returned, ncalls, nprobes, crashed>>

---------------------------------------------------------------------------
(* Bounds of the model *)

NumCallers == 2
MaxCalls == 3
MaxProbes == 2

Runs  == {"runA", "runB"}
Hosts == {"acme.test", "other.test"}
Ports == {3389, 3390}
Kinds == {"Presence", "AuthCheck"}

Keys == Runs \X Hosts \X Ports \X Kinds

NoIdentity == "<no executionId>"

Labels  == {"", "Windows Server 2019"}
NilInfo == "<nil>"
Infos   == {NilInfo, "MSTSHASH=abc"}

---------------------------------------------------------------------------
(* Errors *)

NoErr == [kind |-> "none", msg |-> ""]

ErrNotInitialized(executionId) ==
    [kind |-> "RunNotInitialized", msg |-> "dialers not initialized for " \o executionId]

DialErrors ==
    { [kind |-> "DialFailure", msg |-> "connection refused"],
      [kind |-> "DialFailure", msg |-> "i/o timeout"] }

DecodeErrors ==
    { [kind |-> "DecodeFailure", msg |-> "malformed response"] }

---------------------------------------------------------------------------
(* Responses *)

ZeroIsRDPResponse == [IsRDP |-> FALSE, OS |-> ""]

ZeroCheckRDPAuthResponse == [PluginInfo |-> NilInfo, Auth |-> FALSE]

ZeroResponse(kind) ==
    IF kind = "Presence" THEN ZeroIsRDPResponse ELSE ZeroCheckRDPAuthResponse

Outcome(resp, err) == [resp |-> resp, err |-> err]

\* What the decoder hands back: (server, isRDP, err) or (pluginInfo, auth, err).
DecoderOutputs(kind) ==
    [val  : IF kind = "Presence" THEN Labels ELSE Infos,
     flag : BOOLEAN,
     err  : {NoErr} \cup DecodeErrors]

NoRaw == [val |-> "", flag |-> FALSE, err |-> NoErr]

\* A probe that copies the label before it looks at the verdict.
ShapeIsRDPKeepsLabel(server, isRDP, err) ==
    IF err # NoErr THEN Outcome(ZeroIsRDPResponse, err)
    ELSE IF ~isRDP THEN Outcome([IsRDP |-> FALSE, OS |-> server], NoErr)
    ELSE Outcome([IsRDP |-> TRUE, OS |-> server], NoErr)

\* A probe that reports RDP and forgets the label.
ShapeIsRDPNoLabel(server, isRDP, err) ==
    IF err # NoErr THEN Outcome(ZeroIsRDPResponse, err)
    ELSE IF ~isRDP THEN Outcome(ZeroIsRDPResponse, NoErr)
    ELSE Outcome([IsRDP |-> TRUE, OS |-> ""], NoErr)

\* isRDP, after rdp.DetectRDP returned (server, isRDP, err).
ShapeIsRDP(server, isRDP, err) ==
    IF err # NoErr THEN Outcome(ZeroIsRDPResponse, err)
    ELSE IF ~isRDP THEN Outcome(ZeroIsRDPResponse, NoErr)
    ELSE Outcome([IsRDP |-> TRUE, OS |-> server], NoErr)

\* A probe that fills the response before it looks at the error.
ShapeCheckRDPAuthOnError(pluginInfo, auth, err) ==
    IF err # NoErr THEN Outcome([PluginInfo |-> pluginInfo, Auth |-> auth], err)
    ELSE IF ~auth THEN Outcome(ZeroCheckRDPAuthResponse, NoErr)
    ELSE Outcome([PluginInfo |-> pluginInfo, Auth |-> TRUE], NoErr)

\* checkRDPAuth, after rdp.DetectRDPAuth returned (pluginInfo, auth, err).
ShapeCheckRDPAuth(pluginInfo, auth, err) ==
    IF err # NoErr THEN Outcome(ZeroCheckRDPAuthResponse, err)
    ELSE IF ~auth THEN Outcome(ZeroCheckRDPAuthResponse, NoErr)
    ELSE Outcome([PluginInfo |-> pluginInfo, Auth |-> TRUE], NoErr)

Shape(kind, raw) ==
    IF kind = "Presence" THEN ShapeIsRDP(raw.val, raw.flag, raw.err)
    ELSE ShapeCheckRDPAuth(raw.val, raw.flag, raw.err)

---------------------------------------------------------------------------
(* Dialer registry and addresses *)

NilDialer == "<nil dialer>"

\* protocolstate.GetDialersWithId(executionId): the run's dialers, or nil.
GetDialersWithId(executionId) ==
    IF executionId \in registered THEN executionId ELSE NilDialer

\* An address that leaves the port out.
AddressDefaultPort(host, port) == host \o ":" \o ToString(3389)

\* fmt.Sprintf("%s:%d", host, port)
Address(host, port) == host \o ":" \o ToString(port)

---------------------------------------------------------------------------
(* Memo cache *)

Absent   == [state |-> "absent"]
InFlight == [state |-> "inflight"]

IsOutcome(v) == v # Absent /\ v # InFlight

\* A call is named by its arguments k = <<executionId, host, port, kind>>.
KeyRun(k)  == k[1]
KeyHost(k) == k[2]
KeyPort(k) == k[3]
KeyKind(k) == k[4]

\* The key the wrapper files a call under.
ProbeKey(executionId, host, port, kind) == <<executionId, host, port, kind>>

Slot(k) == ProbeKey(KeyRun(k), KeyHost(k), KeyPort(k), KeyKind(k))

\* A wrapper that keeps successes only: a failure leaves the key absent.
PublishSuccessOnly(k, outcome) ==
    IF IsOutcome(outcome) /\ outcome.err # NoErr
    THEN [cache EXCEPT ![Slot(k)] = Absent]
    ELSE [cache EXCEPT ![Slot(k)] = outcome]

\* The wrapper stores an outcome under a key.
Publish(k, outcome) == [cache EXCEPT ![Slot(k)] = outcome]

\* A wrapper that hands the cached response on without its error.
CachedWithoutError(k) ==
    IF IsOutcome(cache[Slot(k)]) THEN Outcome(cache[Slot(k)].resp, NoErr)
    ELSE cache[Slot(k)]

\* What the wrapper finds under a key.
Cached(k) == cache[Slot(k)]

\* execs, lookups, dials, decodes: how often the probe function ran, looked
\* the dialer up, dialed and called the decoder for the key; hits, joins:
\* the calls served from the cache and the calls that waited; line: the
\* return statement the probe function left by (0: none yet).
ZeroStats == [execs |-> 0, lookups |-> 0, dials |-> 0, decodes |-> 0,
              hits |-> 0, joins |-> 0, line |-> 0]

Bump(k, field) == [stats EXCEPT ![k][field] = @ + 1]

---------------------------------------------------------------------------
(* Frames: a call in flight.  pc is its position, key its arguments;       *)
(* dialer, conn, err, raw and ret are the probe function's locals and      *)
(* return values; deadline and timeout are what the call gave the dial     *)
(* and the decoder; cancelled tells that the host cancelled the call's     *)
(* context while its dial or its decoder call was in flight.               *)

\* timeout := 5 * time.Second
Timeout == 5

\* A context without a deadline, and a call that has not been made.
NoDeadline == 0

Frame(pc, k) ==
    [pc |-> pc, key |-> k, dialer |-> NilDialer, conn |-> 0, err |-> NoErr,
     raw |-> NoRaw, ret |-> Outcome(ZeroResponse(KeyKind(k)), NoErr),
     deadline |-> NoDeadline, timeout |-> NoDeadline, cancelled |-> FALSE]

Calls == BagToSet(frames)

Push(f) == frames (+) SetToBag({f})

Pop(f) == frames (-) SetToBag({f})

Step(f, g) == Pop(f) (+) SetToBag({g})

---------------------------------------------------------------------------
Init ==
    /\ registered = {}
    /\ cache = [k \in Keys |-> Absent]
    /\ frames = EmptyBag
    /\ streams = <<>>
    /\ stats = [k \in Keys |-> ZeroStats]
    /\ returned = [k \in Keys |-> {}]
    /\ ncalls = 0
    /\ nprobes = 0
    /\ crashed = FALSE

\* The host registers the dialers of a run.
RegisterRun(r) ==
    /\ ~crashed
    /\ r \notin registered
    /\ registered' = registered \cup {r}
    /\ UNCHANGED <<cache, frames, streams, stats, returned, ncalls, nprobes, crashed>>

CanCall ==
    /\ ~crashed
    /\ BagCardinality(frames) < NumCallers
    /\ ncalls < MaxCalls

\* A wrapper with one lock for all keys: a probe starts only when none runs.
MemoMissSerialized(k) ==
    /\ Cached(k) = Absent
    /\ nprobes < MaxProbes
    /\ \A j \in Keys : cache[j] # InFlight
    /\ cache' = Publish(k, InFlight)
    /\ frames' = Push(Frame("lookup", k))
    /\ stats' = Bump(k, "execs")
    /\ nprobes' = nprobes + 1
    /\ UNCHANGED returned

\* The wrapper finds no entry for the key: the caller claims it and runs the probe.
MemoMiss(k) ==
    /\ Cached(k) = Absent
    /\ nprobes < MaxProbes
    /\ cache' = Publish(k, InFlight)
    /\ frames' = Push(Frame("lookup", k))
    /\ stats' = Bump(k, "execs")
    /\ nprobes' = nprobes + 1
    /\ UNCHANGED returned

\* The wrapper finds the key's computation in flight: the caller waits for it.
MemoJoin(k) ==
    /\ Cached(k) = InFlight
    /\ frames' = Push(Frame("waiting", k))
    /\ stats' = Bump(k, "joins")
    /\ UNCHANGED <<cache, returned, nprobes>>

\* The wrapper finds the key's outcome: the caller gets it at once.
MemoHit(k) ==
    /\ IsOutcome(Cached(k))
    /\ returned' = [returned EXCEPT ![k] = @ \cup {Cached(k)}]
    /\ stats' = Bump(k, "hits")
    /\ UNCHANGED <<cache, frames, nprobes>>

Memoized(k) ==
    \/ MemoMiss(k)
    \/ MemoJoin(k)
    \/ MemoHit(k)

\* An entry point that looks the dialer up itself, before the wrapper, and
\* fails at once when there is none.
IsRDPLookupFirst(ctx, host, port) ==
    LET k == ProbeKey(ctx, host, port, "Presence") IN
    /\ CanCall
    /\ ctx # NoIdentity
    /\ IF GetDialersWithId(ctx) = NilDialer
       THEN /\ returned' = [returned EXCEPT ![k] = @ \cup
                               {Outcome(ZeroIsRDPResponse, ErrNotInitialized(ctx))}]
            /\ stats' = Bump(k, "lookups")
            /\ UNCHANGED <<cache, frames, nprobes>>
       ELSE Memoized(k)
    /\ ncalls' = ncalls + 1
    /\ UNCHANGED <<registered, streams, crashed>>

\* IsRDP: executionId := ctx.Value("executionId").(string); memoizedisRDP(...)
IsRDP(ctx, host, port) ==
    /\ CanCall
    /\ ctx # NoIdentity
    /\ Memoized(ProbeKey(ctx, host, port, "Presence"))
    /\ ncalls' = ncalls + 1
    /\ UNCHANGED <<registered, streams, crashed>>

\* CheckRDPAuth: the same, through memoizedcheckRDPAuth.
CheckRDPAuth(ctx, host, port) ==
    /\ CanCall
    /\ ctx # NoIdentity
    /\ Memoized(ProbeKey(ctx, host, port, "AuthCheck"))
    /\ ncalls' = ncalls + 1
    /\ UNCHANGED <<registered, streams, crashed>>

\* Either entry point with a context that holds no string "executionId":
\* the unchecked type assertion panics; the package recovers no panic, and
\* the process stops there.
CallWithoutIdentity ==
    /\ CanCall
    /\ ncalls' = ncalls + 1
    /\ crashed' = TRUE
    /\ UNCHANGED <<registered, cache, frames, streams, stats, returned, nprobes>>

---------------------------------------------------------------------------
(* The probe functions isRDP and checkRDPAuth, one step at a time.  Both   *)
(* have the same shape; the kind of the key selects the decoder and the    *)
(* response type.                                                          *)

\* The line of the return statement, in isRDP or in checkRDPAuth.
ReturnLine(kind, presenceLine, authLine) ==
    IF kind = "Presence" THEN presenceLine ELSE authLine

\* A probe without the nil check: it goes on to dial.
OnLookupUnchecked(kind, executionId, dialer) ==
    [next |-> "dial", ret |-> Outcome(ZeroResponse(kind), NoErr)]

\* if dialer == nil { return IsRDPResponse{}, fmt.Errorf(...) }
OnLookup(kind, executionId, dialer) ==
    IF dialer = NilDialer
    THEN [next |-> "returning",
          ret |-> Outcome(ZeroResponse(kind), ErrNotInitialized(executionId))]
    ELSE [next |-> "dial", ret |-> Outcome(ZeroResponse(kind), NoErr)]

\* dialer := protocolstate.GetDialersWithId(executionId), and the nil check.
Lookup(f) ==
    LET k == f.key
        dialer == GetDialersWithId(KeyRun(k))
        after == OnLookup(KeyKind(k), KeyRun(k), dialer)
    IN  /\ ~crashed
        /\ f.pc = "lookup"
        /\ frames' = Step(f, [f EXCEPT !.pc = after.next, !.dialer = dialer,
                                       !.ret = after.ret])
        /\ stats' = [stats EXCEPT ![k].lookups = @ + 1,
                                  ![k].line = IF after.next = "returning"
                                              THEN ReturnLine(KeyKind(k), 49, 108)
                                              ELSE @]
        /\ UNCHANGED <<registered, cache, streams, returned, ncalls, nprobes, crashed>>

\* The deadline of the context the dial is given: context.TODO() has none.
DialDeadline == NoDeadline

\* The timeout the decoder is given: rdp.DetectRDP(conn, timeout).
DecoderTimeout == Timeout

\* A stream as dialer.Fastdialer.Dial returns it.
NewStream(dialer, address, k) ==
    [dialer |-> dialer, address |-> address, key |-> k,
     open |-> TRUE, closes |-> 0, decodes |-> 0]

\* A probe that keeps its streams in a pool and takes one for the same
\* dialer and address from it when there is one.
DialOkPooled(f) ==
    LET k == f.key
        address == Address(KeyHost(k), KeyPort(k))
        pool == {i \in 1..Len(streams) :
                    streams[i].dialer = f.dialer /\ streams[i].address = address}
    IN  /\ ~crashed
        /\ f.pc = "dial"
        /\ stats' = Bump(k, "dials")
        /\ IF pool = {}
           THEN /\ streams' = Append(streams, NewStream(f.dialer, address, k))
                /\ frames' = Step(f, [f EXCEPT !.pc = "decode",
                                               !.conn = Len(streams) + 1,
                                               !.deadline = DialDeadline])
           ELSE LET i == CHOOSE j \in pool : TRUE
                IN  /\ streams' = [streams EXCEPT ![i].open = TRUE]
                    /\ frames' = Step(f, [f EXCEPT !.pc = "decode", !.conn = i,
                                                   !.deadline = DialDeadline])
        /\ UNCHANGED <<registered, cache, returned, ncalls, nprobes, crashed>>

\* conn, err := dialer.Fastdialer.Dial(...) returned a stream.
DialOk(f) ==
    LET k == f.key IN
    /\ ~crashed
    /\ f.pc = "dial"
    /\ stats' = Bump(k, "dials")
    /\ streams' = Append(streams,
                         NewStream(f.dialer, Address(KeyHost(k), KeyPort(k)), k))
    /\ frames' = Step(f, [f EXCEPT !.pc = "decode", !.conn = Len(streams) + 1,
                                   !.deadline = DialDeadline])
    /\ UNCHANGED <<registered, cache, returned, ncalls, nprobes, crashed>>

\* A probe that dials again when the dial fails.
OnDialErrorRetry(kind, err) ==
    [ret |-> Outcome(ZeroResponse(kind), NoErr), next |-> "dial"]

\* A probe that wraps the dial error in one of its own.
OnDialErrorWrapped(kind, err) ==
    [ret |-> Outcome(ZeroResponse(kind),
                     [kind |-> "DialFailure", msg |-> "dial failed: " \o err.msg]),
     next |-> "returning"]

\* A probe that ignores the dial error and goes on to the decoder.
OnDialErrorIgnored(kind, err) ==
    [ret |-> Outcome(ZeroResponse(kind), NoErr), next |-> "decode"]

\* What the probe does with a dial error: if err != nil { return resp, err }
OnDialError(kind, err) ==
    [ret |-> Outcome(ZeroResponse(kind), err), next |-> "returning"]

\* conn, err := dialer.Fastdialer.Dial(...) returned an error.
DialFail(f, err) ==
    LET k == f.key
        after == OnDialError(KeyKind(k), err)
    IN  /\ ~crashed
        /\ f.pc = "dial"
        /\ stats' = [stats EXCEPT ![k].dials = @ + 1,
                                  ![k].line = IF after.next = "returning"
                                              THEN ReturnLine(KeyKind(k), 55, 113)
                                              ELSE @]
        /\ frames' = Step(f, [f EXCEPT !.pc = after.next, !.err = err,
                                       !.ret = after.ret,
                                       !.deadline = DialDeadline])
        /\ UNCHANGED <<registered, cache, streams, returned, ncalls, nprobes, crashed>>

\* The return statement taken after the decoder returned.
DecodeLine(kind, raw) ==
    IF raw.err # NoErr THEN ReturnLine(kind, 63, 121)
    ELSE IF ~raw.flag THEN ReturnLine(kind, 66, 124)
    ELSE ReturnLine(kind, 70, 128)

\* rdp.DetectRDP(conn, timeout) / rdp.DetectRDPAuth(conn, timeout) returned raw.
Decode(f, raw) ==
    LET k == f.key IN
    /\ ~crashed
    /\ f.pc = "decode"
    /\ raw \in DecoderOutputs(KeyKind(k))
    /\ stats' = [stats EXCEPT ![k].decodes = @ + 1,
                              ![k].line = DecodeLine(KeyKind(k), raw)]
    /\ streams' = [streams EXCEPT ![f.conn].decodes = @ + 1]
    /\ frames' = Step(f, [f EXCEPT !.pc = "unwind", !.raw = raw, !.err = raw.err,
                                   !.ret = Shape(KeyKind(k), raw),
                                   !.timeout = DecoderTimeout])
    /\ UNCHANGED <<registered, cache, returned, ncalls, nprobes, crashed>>

\* The decoder panicked while it held the stream.
DecodePanic(f) ==
    LET k == f.key IN
    /\ ~crashed
    /\ f.pc = "decode"
    /\ stats' = Bump(k, "decodes")
    /\ streams' = [streams EXCEPT ![f.conn].decodes = @ + 1]
    /\ frames' = Step(f, [f EXCEPT !.pc = "panicking", !.timeout = DecoderTimeout])
    /\ UNCHANGED <<registered, cache, returned, ncalls, nprobes, crashed>>

\* A deferred call that does not close the stream.
CloseNothing(s) == s

\* _ = conn.Close()
Close(s) == [s EXCEPT !.open = FALSE, !.closes = @ + 1]

\* A probe that returns with its stream open and leaves the close for later.
RunDeferredDetached(f) ==
    /\ ~crashed
    /\ f.pc = "unwind"
    /\ frames' = Step(f, [f EXCEPT !.pc = "returning"])
    /\ UNCHANGED <<registered, cache, streams, stats, returned, ncalls, nprobes, crashed>>

\* defer func() { _ = conn.Close() }(), run as the function returns.
RunDeferred(f) ==
    /\ ~crashed
    /\ f.pc = "unwind"
    /\ streams' = [streams EXCEPT ![f.conn] = Close(@)]
    /\ frames' = Step(f, [f EXCEPT !.pc = "returning"])
    /\ UNCHANGED <<registered, cache, stats, returned, ncalls, nprobes, crashed>>

\* The same deferred call, run as the panic unwinds; the panic then leaves
\* the probe; the package recovers no panic, and the process stops there.
RunDeferredPanicking(f) ==
    /\ ~crashed
    /\ f.pc = "panicking"
    /\ streams' = [streams EXCEPT ![f.conn] = Close(@)]
    /\ frames' = Step(f, [f EXCEPT !.pc = "aborted"])
    /\ crashed' = TRUE
    /\ UNCHANGED <<registered, cache, stats, returned, ncalls, nprobes>>

\* The probe function returns to the wrapper, which publishes the outcome
\* for the key and hands it to the caller.
Return(f) ==
    LET k == f.key IN
    /\ ~crashed
    /\ f.pc = "returning"
    /\ cache' = Publish(k, f.ret)
    /\ returned' = [returned EXCEPT ![k] = @ \cup {f.ret}]
    /\ frames' = Pop(f)
    /\ UNCHANGED <<registered, streams, stats, ncalls, nprobes, crashed>>

\* A waiting caller receives the published outcome of its key.
Receive(f) ==
    LET k == f.key IN
    /\ ~crashed
    /\ f.pc = "waiting"
    /\ IsOutcome(Cached(k))
    /\ returned' = [returned EXCEPT ![k] = @ \cup {Cached(k)}]
    /\ frames' = Pop(f)
    /\ UNCHANGED <<registered, cache, streams, stats, ncalls, nprobes, crashed>>

Next ==
    \/ \E r \in Runs : RegisterRun(r)
    \/ \E ctx \in Runs, host \in Hosts, port \in Ports : IsRDP(ctx, host, port)
    \/ \E ctx \in Runs, host \in Hosts, port \in Ports : CheckRDPAuth(ctx, host, port)
    \/ CallWithoutIdentity
    \/ \E f \in Calls : Lookup(f)
    \/ \E f \in Calls : DialOk(f)
    \/ \E f \in Calls, err \in DialErrors : DialFail(f, err)
    \/ \E f \in Calls : \E raw \in DecoderOutputs(KeyKind(f.key)) : Decode(f, raw)
    \/ \E f \in Calls : DecodePanic(f)
    \/ \E f \in Calls : RunDeferred(f)
    \/ \E f \in Calls : RunDeferredPanicking(f)
    \/ \E f \in Calls : Return(f)
    \/ \E f \in Calls : Receive(f)

Spec == Init /\ [][Next]_vars

---------------------------------------------------------------------------
(* Properties *)

IsFailure(v) == IsOutcome(v) /\ v.err # NoErr

StreamIds == 1..Len(streams)

StreamsOf(k) == {i \in StreamIds : streams[i].key = k}

ProbingPcs == {"lookup", "dial", "decode", "unwind", "panicking", "returning"}

HoldingPcs == {"decode", "unwind", "panicking"}

\* C1: for every key the probe function runs at most once, whatever the
\* number of concurrent and later callers: at most one execution, one dialer
\* lookup, one dial, one decoder call and one stream per key, and at most one
\* call of the key is inside the probe function at any time.
C1_ProbeAtMostOnce ==
    \A k \in Keys :
        /\ stats[k].execs <= 1
        /\ stats[k].lookups <= 1
        /\ stats[k].dials <= 1
        /\ stats[k].decodes <= 1
        /\ Cardinality(StreamsOf(k)) <= 1
        /\ Cardinality({f \in Calls : f.key = k /\ f.pc \in ProbingPcs}) <= 1
        /\ \A f \in Calls : f.key = k /\ f.pc \in ProbingPcs => CopiesIn(f, frames) = 1

\* A key that one caller probed, one caller waited for and one caller found
\* in the cache: one probe in all.
C1_Witness ==
    \E k \in Keys :
        /\ stats[k].joins >= 1
        /\ stats[k].hits >= 1
        /\ stats[k].execs = 1
        /\ stats[k].dials = 1
        /\ stats[k].decodes = 1
        /\ IsOutcome(cache[k])

\* C2: all callers of a key receive one and the same outcome, the one the
\* key's computation published, and a published outcome is never changed.
C2_SingleOutcome ==
    /\ [](\A k \in Keys : returned[k] \subseteq {cache[k]})
    /\ [][\A k \in Keys : IsOutcome(cache[k]) => cache'[k] = cache[k]]_vars

\* The probing caller, a waiter and a later caller all got the key's outcome.
C2_Witness ==
    \E k \in Keys :
        /\ stats[k].joins >= 1
        /\ stats[k].hits >= 1
        /\ returned[k] = {cache[k]}
        /\ \A f \in Calls : f.key # k

\* C3: once a key's computation has ended in a failure, the failure stays
\* cached, every later caller of the key receives it, and no further dialer
\* lookup, dial or decoder call is made for the key.
C3_FailureCached ==
    /\ [](\A k \in Keys :
            (\E o \in returned[k] : o.err # NoErr) =>
                /\ IsFailure(cache[k])
                /\ returned[k] = {cache[k]}
                /\ stats[k].execs = 1
                /\ stats[k].lookups = 1
                /\ stats[k].dials <= 1
                /\ stats[k].decodes <= 1
                /\ \A f \in Calls : f.key = k => f.pc = "waiting")
    /\ [][\A k \in Keys :
          IsFailure(cache[k]) =>
              /\ cache'[k] = cache[k]
              /\ returned'[k] \subseteq {cache[k]}
              /\ stats'[k].execs = stats[k].execs
              /\ stats'[k].lookups = stats[k].lookups
              /\ stats'[k].dials = stats[k].dials
              /\ stats'[k].decodes = stats[k].decodes]_vars

\* A dial failure that a later caller was served from the cache.
C3_Witness ==
    \E k \in Keys :
        /\ IsFailure(cache[k])
        /\ cache[k].err.kind = "DialFailure"
        /\ stats[k].hits >= 1
        /\ returned[k] = {cache[k]}
        /\ stats[k].dials = 1

\* C4: a call whose run has no dialers registered performs no dial and no
\* decoder call, and it ends with the RunNotInitialized error and the zero
\* response, for IsRDP and for CheckRDPAuth.
C4_RunNotInitialized ==
    \A k \in Keys :
        KeyRun(k) \notin registered =>
            /\ stats[k].dials = 0
            /\ stats[k].decodes = 0
            /\ StreamsOf(k) = {}
            /\ \A f \in Calls : f.key = k => f.pc \in {"lookup", "returning", "waiting"}
            /\ \A f \in Calls : f.key = k /\ f.pc = "returning" =>
                   f.ret = [resp |-> ZeroResponse(KeyKind(k)),
                            err |-> [kind |-> "RunNotInitialized",
                                     msg |-> "dialers not initialized for " \o KeyRun(k)]]
            /\ \A o \in returned[k] \cup (IF IsOutcome(cache[k]) THEN {cache[k]} ELSE {}) :
                   o = [resp |-> ZeroResponse(KeyKind(k)),
                        err |-> [kind |-> "RunNotInitialized",
                                 msg |-> "dialers not initialized for " \o KeyRun(k)]]

\* Both probes have failed for a run that is not registered.
C4_Witness ==
    \E k1, k2 \in Keys :
        /\ KeyKind(k1) = "Presence" /\ KeyKind(k2) = "AuthCheck"
        /\ KeyRun(k1) \notin registered /\ KeyRun(k2) \notin registered
        /\ returned[k1] # {} /\ returned[k2] # {}
        /\ stats[k1].lookups = 1 /\ stats[k2].lookups = 1

\* C5: every stream is closed exactly once and before the probe that dialed
\* it returns, on every path: an unclosed stream is held by a call that is
\* still at the decoder or unwinding, a call that is returning or has
\* panicked out has closed its stream, and a failed dial leaves no stream.
C5_StreamClosedOnce ==
    /\ \A i \in StreamIds :
          LET holders == {f \in Calls : f.conn = i /\ f.pc \in HoldingPcs} IN
          /\ streams[i].closes <= 1
          /\ streams[i].open = (streams[i].closes = 0)
          /\ streams[i].closes = 0 => Cardinality(holders) = 1
          /\ streams[i].closes = 1 => holders = {}
    /\ \A f \in Calls :
          f.pc \in {"returning", "aborted"} /\ f.conn # 0 => streams[f.conn].closes = 1
    /\ \A k \in Keys :
          /\ IsOutcome(cache[k]) => \A i \in StreamsOf(k) : streams[i].closes = 1
          /\ stats[k].line \in {55, 113} => StreamsOf(k) = {}
          /\ Cardinality(StreamsOf(k)) <= stats[k].dials

\* The decoder panicked on one stream and failed on another: both are closed.
C5_Witness ==
    /\ crashed
    /\ \E i, j \in StreamIds :
          /\ i # j
          /\ streams[i].closes = 1 /\ streams[j].closes = 1
          /\ stats[streams[i].key].line \in {63, 121}
          /\ stats[streams[j].key].line = 0
          /\ \E f \in Calls : f.pc = "aborted" /\ f.conn = j

\* The decoder was called in this frame and has returned f.raw.
Decoded(f) == f.pc \in {"unwind", "returning"} /\ f.conn # 0

\* The step is the return of frame f from the probe function.
Returns(f) == f.pc = "returning" /\ frames' = Pop(f)

WellFormed(kind, o) ==
    IF kind = "Presence"
    THEN /\ o.resp.OS # "" => o.resp.IsRDP
         /\ o.err # NoErr => o.resp = [IsRDP |-> FALSE, OS |-> ""]
    ELSE /\ o.resp.PluginInfo # NilInfo => o.resp.Auth
         /\ o.err # NoErr => o.resp = [PluginInfo |-> NilInfo, Auth |-> FALSE]

\* C7: in every outcome, computed or cached or received, the label is set
\* only with isRDP, the service record only with authRequired, and a failure
\* carries the zero response, also when the decoder returned a label or a
\* record with its error.
C7_PayloadInvariant ==
    /\ \A k \in Keys :
          /\ \A o \in returned[k] : WellFormed(KeyKind(k), o)
          /\ IsOutcome(cache[k]) => WellFormed(KeyKind(k), cache[k])
    /\ \A f \in Calls :
          f.pc \in {"unwind", "returning"} => WellFormed(KeyKind(f.key), f.ret)

\* The auth decoder returned a record and a true verdict with its error, and
\* another key's failure was served from the cache.
C7_Witness ==
    /\ \E f \in Calls :
          /\ f.pc = "returning"
          /\ KeyKind(f.key) = "AuthCheck"
          /\ f.raw = [val |-> "MSTSHASH=abc", flag |-> TRUE,
                      err |-> [kind |-> "DecodeFailure", msg |-> "malformed response"]]
          /\ f.ret.resp = [PluginInfo |-> NilInfo, Auth |-> FALSE]
    /\ \E k \in Keys : stats[k].hits >= 1 /\ IsFailure(cache[k])

\* C8: when the decoder returns no error and a true verdict with label L or
\* record R, the probe returns {true, L} or {true, R}, L and R unchanged, and
\* that is what the caller receives and the cache holds.
C8_PositiveCarriesPayload ==
    /\ [](\A f \in Calls :
            Decoded(f) /\ f.raw.err = NoErr /\ f.raw.flag =>
                /\ KeyKind(f.key) = "Presence" =>
                       f.ret = [resp |-> [IsRDP |-> TRUE, OS |-> f.raw.val], err |-> NoErr]
                /\ KeyKind(f.key) = "AuthCheck" =>
                       f.ret = [resp |-> [PluginInfo |-> f.raw.val, Auth |-> TRUE],
                                err |-> NoErr])
    /\ [][\A f \in Calls :
            Returns(f) /\ Decoded(f) /\ f.raw.err = NoErr /\ f.raw.flag =>
                /\ cache'[f.key] = f.ret
                /\ returned'[f.key] = {f.ret}]_vars

\* IsRDP has returned the label and CheckRDPAuth the record of the decoder.
C8_Witness ==
    \E k1, k2 \in Keys :
        /\ stats[k1].line = 70
        /\ returned[k1] = {[resp |-> [IsRDP |-> TRUE, OS |-> "Windows Server 2019"],
                            err |-> NoErr]}
        /\ stats[k2].line = 128
        /\ returned[k2] = {[resp |-> [PluginInfo |-> "MSTSHASH=abc", Auth |-> TRUE],
                            err |-> NoErr]}

\* C9: probes of different keys do not block one another: whatever other
\* keys are in flight, a call in the probe function can take its next step, a
\* waiter waits only for its own key, and a caller of an absent key can start
\* that key's probe.
C9_NoCrossKeyBlocking ==
    ~crashed =>
        /\ \A f \in Calls :
              /\ f.pc = "lookup" => ENABLED Lookup(f)
              /\ f.pc = "dial" => ENABLED DialOk(f) /\ \A e \in DialErrors : ENABLED DialFail(f, e)
              /\ f.pc = "decode" =>
                     \A raw \in DecoderOutputs(KeyKind(f.key)) : ENABLED Decode(f, raw)
              /\ f.pc = "unwind" => ENABLED RunDeferred(f)
              /\ f.pc = "returning" => ENABLED Return(f)
              /\ f.pc = "waiting" =>
                     /\ cache[f.key] # Absent
                     /\ IsOutcome(cache[f.key]) => ENABLED Receive(f)
        /\ \A k \in Keys :
              CanCall /\ nprobes < MaxProbes /\ cache[k] = Absent =>
                  IF KeyKind(k) = "Presence"
                  THEN ENABLED IsRDP(KeyRun(k), KeyHost(k), KeyPort(k))
                  ELSE ENABLED CheckRDPAuth(KeyRun(k), KeyHost(k), KeyPort(k))

\* While one key is still at the decoder, another key of the same run, dialed
\* after it, has run to completion and returned.
C9_Witness ==
    \E f \in Calls : \E k \in Keys :
        /\ f.pc = "decode"
        /\ k # f.key
        /\ KeyRun(k) = KeyRun(f.key)
        /\ <<KeyHost(k), KeyPort(k)>> # <<KeyHost(f.key), KeyPort(f.key)>>
        /\ returned[k] # {}
        /\ stats[k].execs = 1
        /\ \E j \in StreamsOf(k) : j > f.conn /\ streams[j].closes = 1

ResponseFields(kind) ==
    IF kind = "Presence" THEN {"IsRDP", "OS"} ELSE {"PluginInfo", "Auth"}

\* C10: an outcome is shared only between calls with the same run, host,
\* port and kind: every call that was served had its own arguments probed
\* exactly once, through its own run's dialer and to its own address, and
\* received a response of its own kind naming its own run.
C10_KeyIsolation ==
    /\ \A k \in Keys :
          /\ returned[k] # {} \/ stats[k].hits > 0 \/ stats[k].joins > 0 =>
                 stats[k].execs = 1
          /\ returned[k] \subseteq {cache[k]}
          /\ \A o \in returned[k] :
                 /\ DOMAIN o.resp = ResponseFields(KeyKind(k))
                 /\ o.err.kind = "RunNotInitialized" =>
                        o.err.msg = "dialers not initialized for " \o KeyRun(k)
          /\ \A i \in StreamsOf(k) : streams[i].dialer = KeyRun(k)
    /\ \A i, j \in StreamIds :
          streams[i].address = streams[j].address =>
              /\ KeyHost(streams[i].key) = KeyHost(streams[j].key)
              /\ KeyPort(streams[i].key) = KeyPort(streams[j].key)

\* IsRDP and CheckRDPAuth on the same run, host and port have each dialed
\* and returned, and a repeated call was served from the cache.
C10_Witness ==
    \E k1, k2 \in Keys :
        /\ KeyKind(k1) = "Presence" /\ KeyKind(k2) = "AuthCheck"
        /\ <<KeyRun(k1), KeyHost(k1), KeyPort(k1)>> = <<KeyRun(k2), KeyHost(k2), KeyPort(k2)>>
        /\ stats[k1].dials = 1 /\ stats[k2].dials = 1
        /\ returned[k1] # {} /\ returned[k2] # {}
        /\ stats[k1].hits >= 1

\* C11: the probe never retries and never rewrites an error: for every key
\* there are at most as many dials and as many decoder calls as executions,
\* a probe that holds an error from the dial or from the decoder returns
\* that very error, and that very error is what the wrapper publishes and
\* what the caller receives.
C11_ErrorPassedUnchanged ==
    /\ [](\A k \in Keys :
            /\ stats[k].dials <= stats[k].execs
            /\ stats[k].decodes <= stats[k].execs
            /\ \A f \in Calls :
                  f.key = k /\ f.err # NoErr =>
                      /\ f.pc = "unwind" \/ f.pc = "returning"
                      /\ f.ret = Outcome(ZeroResponse(KeyKind(k)), f.err))
    /\ [][\A f \in Calls :
            Returns(f) /\ f.err # NoErr =>
                /\ cache'[f.key] = Outcome(ZeroResponse(KeyKind(f.key)), f.err)
                /\ cache'[f.key] \in returned'[f.key]
                /\ stats'[f.key] = stats[f.key]]_vars

\* A dial that timed out and a decoder that failed have each been handed to
\* their callers as they were.
C11_Witness ==
    \E k1, k2 \in Keys :
        /\ stats[k1].line \in {55, 113}
        /\ stats[k1].dials = 1 /\ stats[k1].decodes = 0
        /\ returned[k1] = {Outcome(ZeroResponse(KeyKind(k1)),
                                   [kind |-> "DialFailure", msg |-> "i/o timeout"])}
        /\ stats[k2].line \in {63, 121}
        /\ stats[k2].dials = 1 /\ stats[k2].decodes = 1
        /\ \E e \in DecodeErrors :
              returned[k2] = {Outcome(ZeroResponse(KeyKind(k2)), e)}

---------------------------------------------------------------------------
(* Cancellation.  IsRDP and CheckRDPAuth take the caller's ctx, read the   *)
(* execution id from it and hand on (executionId, host, port): the probe   *)
(* functions get no context, the dial is given context.TODO() and the      *)
(* decoder a timeout.  Cancelling the ctx therefore changes nothing the    *)
(* probe reads; the model marks the calls it found in flight.              *)

InFlightIO(f) == f.pc = "dial" \/ f.pc = "decode"

MarkCancelled(r, f) ==
    IF KeyRun(f.key) = r /\ InFlightIO(f) THEN [f EXCEPT !.cancelled = TRUE] ELSE f

\* The host cancels the context of run r while a dial or a decoder call of
\* the run is in flight.
CancelRun(r) ==
    /\ ~crashed
    /\ \E f \in Calls : KeyRun(f.key) = r /\ InFlightIO(f) /\ ~f.cancelled
    /\ frames' = [g \in {MarkCancelled(r, f) : f \in Calls} |->
                    frames[CHOOSE f \in Calls : MarkCancelled(r, f) = g]]
    /\ UNCHANGED <<registered, cache, streams, stats, returned, ncalls, nprobes, crashed>>

\* Both runs have their dialers: the state after the host registered them.
InitCancel ==
    /\ registered = Runs
    /\ cache = [k \in Keys |-> Absent]
    /\ frames = EmptyBag
    /\ streams = <<>>
    /\ stats = [k \in Keys |-> ZeroStats]
    /\ returned = [k \in Keys |-> {}]
    /\ ncalls = 0
    /\ nprobes = 0
    /\ crashed = FALSE

NextCancel ==
    \/ \E r \in Runs : CancelRun(r)
    \/ \E ctx \in Runs, host \in Hosts, port \in Ports : IsRDP(ctx, host, port)
    \/ \E ctx \in Runs, host \in Hosts, port \in Ports : CheckRDPAuth(ctx, host, port)
    \/ \E f \in Calls : Lookup(f)
    \/ \E f \in Calls : DialOk(f)
    \/ \E f \in Calls, err \in DialErrors : DialFail(f, err)
    \/ \E f \in Calls : \E raw \in DecoderOutputs(KeyKind(f.key)) : Decode(f, raw)
    \/ \E f \in Calls : DecodePanic(f)
    \/ \E f \in Calls : RunDeferred(f)
    \/ \E f \in Calls : RunDeferredPanicking(f)
    \/ \E f \in Calls : Return(f)
    \/ \E f \in Calls : Receive(f)

SpecCancel == InitCancel /\ [][NextCancel]_vars

\* C12: a call whose context was cancelled while its dial or its decoder
\* call was in flight gets no stream from that dial and no answer from that
\* decoder call: its next step is a failure, and what the wrapper publishes
\* for its key when it returns is a failure, never a success.
C12_CancelAborts ==
    [][\A f \in Calls :
          f.cancelled =>
              /\ \A g \in BagToSet(frames') :
                    /\ g.key = f.key /\ g.pc # f.pc
                    /\ g.pc \in {"decode", "unwind", "returning"}
                    => g.pc \in {"unwind", "returning"} /\ g.ret.err # NoErr
              /\ Returns(f) => IsFailure(cache'[f.key])]_vars

---------------------------------------------------------------------------
(* Termination.  The steps the probe and the wrapper take on their own     *)
(* (the lookup, the deferred close, the return, the hand-over to a         *)
(* waiter) are taken once they can be; the decoder is given the timeout    *)
(* and answers within it.  The dial is given a context without a deadline  *)
(* and no timeout: nothing in the probe bounds it, and the specification   *)
(* states no fairness for it.                                              *)

Progress(f) ==
    \/ Lookup(f)
    \/ \E raw \in DecoderOutputs(KeyKind(f.key)) : Decode(f, raw)
    \/ DecodePanic(f)
    \/ RunDeferred(f)
    \/ RunDeferredPanicking(f)
    \/ Return(f)
    \/ Receive(f)

SpecLive == Init /\ [][Next]_vars /\ WF_vars(\E f \in Calls : Progress(f))

\* C13: every call to IsRDP or CheckRDPAuth eventually returns: whenever
\* calls are in flight and the process keeps running, a later state has
\* none of them left, whether they run the probe or wait for its outcome.
C13_EveryCallReturns == (frames # EmptyBag) ~> (crashed \/ frames = EmptyBag)

---------------------------------------------------------------------------
(* The course of one probe execution *)

\* Where an execution stands: before the lookup, with its dialer, with its
\* stream, with the decoder's answer, or at one of its return statements.
\* Aborted is the decoder's panic, which ends the process and not the probe.
Phase(f) ==
    CASE f.pc = "lookup" -> "NotStarted"
      [] f.pc = "dial" -> "DialerResolved"
      [] f.pc = "decode" -> "Connected"
      [] f.pc \in {"unwind", "returning"} /\ f.ret.err # NoErr -> "Failure"
      [] f.pc = "unwind" /\ f.ret.err = NoErr -> "Decoded"
      [] f.pc = "returning" /\ f.ret.err = NoErr -> "Success"
      [] OTHER -> "Aborted"

PhaseOrder ==
    { <<"NotStarted", "DialerResolved">>, <<"DialerResolved", "Connected">>,
      <<"Connected", "Decoded">>, <<"Decoded", "Success">>,
      <<"NotStarted", "Failure">>, <<"DialerResolved", "Failure">>,
      <<"Connected", "Failure">>, <<"Connected", "Aborted">> }

\* The execution of key k has reached a return statement, or has returned.
Ended(k) ==
    \/ IsOutcome(cache[k])
    \/ \E f \in Calls : f.key = k /\ Phase(f) \in {"Success", "Failure"}

\* C14: an execution goes from NotStarted to DialerResolved, Connected and
\* Decoded and then to Success, or from any of them straight to Failure: it
\* dials only with the dialer it resolved, calls the decoder only on the
\* open stream its dial returned, makes no dial after a failed lookup and no
\* decoder call after a failed dial, and once it has ended there is no
\* further lookup, dial or decoder call for its key and its outcome stays.
C14_PhaseOrder ==
    /\ [](\A k \in Keys :
            /\ \A f \in Calls :
                  f.key = k =>
                      /\ f.pc = "lookup" =>
                            stats[k].lookups = 0 /\ stats[k].dials = 0
                      /\ f.pc = "dial" =>
                            /\ f.dialer # NilDialer /\ f.dialer = KeyRun(k)
                            /\ stats[k].lookups = 1 /\ stats[k].dials = 0
                            /\ f.conn = 0
                      /\ f.pc = "decode" =>
                            /\ f.conn \in StreamIds
                            /\ streams[f.conn].open /\ streams[f.conn].key = k
                            /\ stats[k].dials = 1 /\ stats[k].decodes = 0
                      /\ Phase(f) \in {"Decoded", "Success"} =>
                            stats[k].decodes = 1 /\ f.conn \in StreamIds
            /\ stats[k].dials > 0 => stats[k].lookups = 1
            /\ stats[k].decodes > 0 => stats[k].dials = 1 /\ StreamsOf(k) # {}
            /\ stats[k].line \in {49, 108} =>
                  stats[k].dials = 0 /\ stats[k].decodes = 0 /\ StreamsOf(k) = {}
            /\ stats[k].line \in {55, 113} =>
                  stats[k].decodes = 0 /\ StreamsOf(k) = {}
            /\ IsOutcome(cache[k]) =>
                  \A f \in Calls : f.key = k => f.pc = "waiting")
    /\ [][\A k \in Keys :
            /\ \A f \in Calls, g \in BagToSet(frames') :
                  /\ f.key = k /\ g.key = k
                  /\ f.pc \in ProbingPcs \cup {"panicking"}
                  /\ g.pc \in ProbingPcs \cup {"panicking", "aborted"}
                  => Phase(g) = Phase(f) \/ <<Phase(f), Phase(g)>> \in PhaseOrder
            /\ Ended(k) =>
                  /\ Ended(k)'
                  /\ stats'[k].lookups = stats[k].lookups
                  /\ stats'[k].dials = stats[k].dials
                  /\ stats'[k].decodes = stats[k].decodes
                  /\ stats'[k].line = stats[k].line
                  /\ IsOutcome(cache[k]) => cache'[k] = cache[k]]_vars

\* One execution failed in the dial and never called the decoder; another
\* went through every step to a positive answer; both have returned.
C14_Witness ==
    \E k1, k2 \in Keys :
        /\ stats[k1].line \in {55, 113}
        /\ stats[k1].lookups = 1 /\ stats[k1].dials = 1 /\ stats[k1].decodes = 0
        /\ IsFailure(cache[k1])
        /\ stats[k2].line \in {70, 128}
        /\ stats[k2].lookups = 1 /\ stats[k2].dials = 1 /\ stats[k2].decodes = 1
        /\ IsOutcome(cache[k2]) /\ cache[k2].err = NoErr

---------------------------------------------------------------------------
(* Deadlines *)

\* The execution of frame f has issued its dial; has called its decoder.
HasDialed(f) == f.pc \in ProbingPcs \cup {"panicking", "aborted"} /\ stats[f.key].dials > 0

HasDecoded(f) == f.pc \in ProbingPcs \cup {"panicking", "aborted"} /\ stats[f.key].decodes > 0

\* C15: every dial is issued with a deadline equal to the fixed timeout of
\* 5, and the decoder is given that same timeout.
C15_DialCarriesDeadline ==
    \A f \in Calls :
        /\ HasDialed(f) => f.deadline = Timeout /\ Timeout = 5
        /\ HasDecoded(f) => f.timeout = Timeout

\* The decoder's half of it, which the code does keep: a decoder call was
\* made, with the fixed timeout, after a dial without a deadline.
C15_DecoderTimeoutOnly ==
    \E f \in Calls :
        /\ HasDecoded(f) /\ f.timeout = Timeout
        /\ HasDialed(f) /\ f.deadline = NoDeadline

---------------------------------------------------------------------------
(* Calls without a run identity *)

\* A step that is a call to IsRDP or CheckRDPAuth and goes through no
\* wrapper (no hit, no join, no execution): the call whose context holds no
\* string under "executionId".
MissingIdentityCall ==
    /\ ncalls' = ncalls + 1
    /\ frames' = frames
    /\ stats' = stats

\* C16: a call whose context carries no run identity does not abort the
\* process, looks no dialer up, dials nothing and writes nothing to the
\* cache: it ends as an error handed to its caller.
C16_MissingIdentityIsAnError ==
    [][MissingIdentityCall =>
          /\ crashed' = crashed
          /\ cache' = cache
          /\ streams' = streams
          /\ returned' = returned]_vars

\* The process was aborted with no probe in a panic: by the cast.
C16_AbortedByCast ==
    /\ crashed
    /\ \A f \in Calls : f.pc # "aborted"
    /\ cache = [k \in Keys |-> Absent]
    /\ streams = <<>>

---------------------------------------------------------------------------
(* Streams are not shared *)

\* The calls that hold stream i in their conn, each copy counted.
Holders(i) == {f \in Calls : f.conn = i}

\* C17: no connection is reused or cached: every successful dial of an
\* execution yields a stream of its own, a stream is held by the one
\* execution that dialed it and handed to at most one decoder call, of that
\* execution; the cache holds responses and errors and no stream; and once
\* the execution has returned no call holds its stream.
C17_NoStreamReuse ==
    /\ [](/\ \A i \in StreamIds :
                /\ streams[i].decodes <= 1
                /\ streams[i].dialer = KeyRun(streams[i].key)
                /\ streams[i].address = Address(KeyHost(streams[i].key),
                                                KeyPort(streams[i].key))
                /\ \A f \in Holders(i) :
                      /\ f.key = streams[i].key
                      /\ f.pc \in ProbingPcs \cup {"panicking", "aborted"}
                      /\ CopiesIn(f, frames) = 1
                /\ Cardinality(Holders(i)) <= 1
                /\ IsOutcome(cache[streams[i].key]) =>
                      Holders(i) = {} /\ ~streams[i].open
          /\ \A k \in Keys :
                /\ Cardinality(StreamsOf(k)) <= stats[k].execs
                /\ IsOutcome(cache[k]) =>
                      /\ DOMAIN cache[k] = {"resp", "err"}
                      /\ DOMAIN cache[k].resp = ResponseFields(KeyKind(k)))
    /\ [][/\ Len(streams') >= Len(streams)
          /\ \A i \in StreamIds :
                /\ streams'[i].key = streams[i].key
                /\ streams'[i].decodes # streams[i].decodes =>
                      /\ streams[i].decodes = 0 /\ streams[i].open
                      /\ \E f \in Holders(i) :
                            f.pc = "decode" /\ f.key = streams[i].key
                /\ ~streams[i].open => ~streams'[i].open]_vars

\* Two executions on the same address, one per probe, have each dialed a
\* stream of their own, decoded on it once and closed it, and returned.
C17_Witness ==
    \E i, j \in StreamIds :
        LET k1 == streams[i].key
            k2 == streams[j].key
        IN  /\ i # j /\ k1 # k2
            /\ streams[i].address = streams[j].address
            /\ streams[i].dialer = streams[j].dialer
            /\ streams[i].decodes = 1 /\ streams[j].decodes = 1
            /\ ~streams[i].open /\ ~streams[j].open
            /\ IsOutcome(cache[k1]) /\ IsOutcome(cache[k2])

---------------------------------------------------------------------------
(* Close before publish *)

OpenStreamsOf(k) == {i \in StreamsOf(k) : streams[i].open}

\* C18: close happens before publish: a step that publishes the outcome of
\* a key or hands it to a caller (the computing caller, a waiter, a later
\* hit) starts in a state where the stream of the key's execution is closed
\* already; at every state a key has at most one open stream, and none once
\* its outcome is cached or has been received.
C18_CloseBeforePublish ==
    /\ [](\A k \in Keys :
            /\ Cardinality(OpenStreamsOf(k)) <= 1
            /\ IsOutcome(cache[k]) \/ returned[k] # {} => OpenStreamsOf(k) = {})
    /\ [][\A k \in Keys :
            \/ returned'[k] # returned[k]
            \/ IsOutcome(cache'[k]) /\ cache'[k] # cache[k]
            \/ stats'[k].hits # stats[k].hits
            => /\ OpenStreamsOf(k) = {}
               /\ stats[k].dials = 1 /\ stats[k].line \notin {55, 113} =>
                     \E i \in StreamsOf(k) : streams[i].closes = 1]_vars

\* The outcome of a key whose execution had a stream has reached the
\* computing caller, a waiter and a later caller, with the stream closed.
C18_Witness ==
    \E k \in Keys :
        /\ IsOutcome(cache[k])
        /\ cache[k] \in returned[k]
        /\ stats[k].joins >= 1 /\ stats[k].hits >= 1
        /\ \A f \in Calls : f.key # k
        /\ \E i \in StreamsOf(k) : ~streams[i].open /\ streams[i].closes = 1

---------------------------------------------------------------------------
(* The lookup is inside the memoized computation *)

NotInitialized(k) == Outcome(ZeroResponse(KeyKind(k)), ErrNotInitialized(KeyRun(k)))

\* C19: the dialer lookup is part of the memoized computation: a key has no
\* more lookups than executions; a key whose first call failed because its
\* run had no dialers keeps that failure in the cache, and every caller of
\* the key gets it, with one lookup and no dial for the key, also after the
\* run's dialers were registered; and no step looks a dialer up or dials
\* for a key that has a cached outcome.
C19_LookupIsMemoized ==
    /\ [](\A k \in Keys :
            /\ stats[k].lookups <= stats[k].execs
            /\ NotInitialized(k) \in returned[k] \/ cache[k] = NotInitialized(k) =>
                  /\ cache[k] = NotInitialized(k)
                  /\ returned[k] \subseteq {NotInitialized(k)}
                  /\ stats[k].lookups = 1 /\ stats[k].dials = 0
                  /\ StreamsOf(k) = {})
    /\ [][\A k \in Keys :
            IsOutcome(cache[k]) =>
                /\ cache'[k] = cache[k]
                /\ stats'[k].lookups = stats[k].lookups
                /\ stats'[k].dials = stats[k].dials
                /\ stats'[k].execs = stats[k].execs
                /\ stats'[k].hits # stats[k].hits =>
                      returned'[k] = returned[k] \cup {cache[k]}]_vars

\* A key failed for want of dialers, its run has them now, and a later call
\* was served the failure from the cache; another key of the same run has
\* dialed.
C19_Witness ==
    \E k, j \in Keys :
        /\ cache[k] = NotInitialized(k)
        /\ KeyRun(k) \in registered /\ KeyRun(j) = KeyRun(k)
        /\ stats[k].hits >= 1 /\ returned[k] = {NotInitialized(k)}
        /\ stats[k].lookups = 1 /\ stats[k].dials = 0
        /\ stats[j].dials = 1

====
